---------------------------- MODULE Spec2Model ----------------------------
(***************************************************************************)
(* A model of the ordered parallel pipeline of teletext/mp.py:             *)
(* PureGeneratorPool, its multi-process implementation                     *)
(* (_PureGeneratorPoolMP: dispatcher, work queue, results queue, workers   *)
(* running denumerate -> function -> renumerate) and its single-process    *)
(* implementation (_PureGeneratorPoolSingle); and of the line decoder of   *)
(* vbi.py: Vbi.make_guess_mask, make_possible_bytes, _deconvolve and       *)
(* deconvolve.  The two parts share no state: the specifications of one    *)
(* part hold the variables of the other part fixed.                        *)
(***************************************************************************)
EXTENDS Integers, Sequences, FiniteSets, TLC

(* ------------------------------ bounds -------------------------------- *)

\* Largest number of items the input iterator of one apply() can produce.
MaxLen == 5

\* Largest `processes` argument (1 selects the single-process pool).
MaxProcs == 3

\* Largest number of apply() calls inside one scope.
MaxApply == 2

\* The input iterators tried: iterator s produces InputItem(s, 0), InputItem(s, 1), ...
MaxSeed == 2

\* Payload values are taken modulo NumValues.
NumValues == 7

\* Largest number of worker processes that crash or are killed in one run.
MaxFailures == 1

\* The priming window of apply(), itertools.islice(iterable, 32).  The code's
\* window is 32; the model keeps the window as a parameter and explores a
\* small one, so that every interleaving of the workers over a window's worth
\* of items in flight can be enumerated.  Every statement about the window is
\* made about PrimeCount.
PrimeCount == 3

\* Number of data bytes of a line.  The code decodes 42; the model keeps the
\* number as a parameter and explores short lines, so that every candidate of
\* every position can be rendered and compared.
DataBytes == 3

\* How many of the 16 Hamming 8/4 codewords the seed alphabet holds.
HammCount == 4

\* How many of the 128 odd-parity bytes the seed alphabet holds.
ParityCount == 2

\* Largest number of deconvolve() calls on one decoder.
MaxRuns == 2

(* ------------------------------- state -------------------------------- *)

VARIABLES
    processes,       \* the `processes` argument of PureGeneratorPool
    seed,            \* which input iterator the caller passes to apply()
    pc,              \* where the caller (dispatcher) is
    idx,             \* position of the loop over self._pool in __enter__ / __exit__
    work_queue,      \* self._work_queue: sequence of <<n, item>> (MP) or of items (single)
    done_queue,      \* self._done_queue: sequence of <<n, result>>
    quit_event,      \* self._quit_event
    wpc,             \* per worker process: where it is
    started_event,   \* per worker: started_event
    stopped_event,   \* per worker: stopped_event
    tmp_queue,       \* per worker: tmp_queue, the stash of sequence numbers
    fitem,           \* per worker: the item the function is working on
    fcalls,          \* per process (0 is the caller): how often `function` was called
    proc,            \* single-process pool: state of the generator self._proc
    iter_pos,        \* number of items the input iterator has produced in this apply()
    exhausted,       \* the input iterator has raised StopIteration
    sent_count,      \* apply(): sent_count
    received_count,  \* apply(): received_count
    received,        \* apply(): the dict `received`
    taken,           \* number of results this apply() got from done_queue
    handled,         \* number of results the workers put on done_queue since apply() began
    input,           \* the items the input iterator produced in this apply()
    out,             \* the values this apply() has yielded
    napply,          \* number of apply() calls so far
    rejected,        \* sequence numbers of the items whose submission raised
    backlog,         \* length of the work queue when __exit__ set the quit event
    failed           \* the workers that crashed or were killed

\* The line decoder, class Vbi of vbi.py.
VARIABLES
    vpc,             \* where the caller of the decoder is
    vbi,             \* self.vbi: the samples of the line
    guess,           \* self.guess: the bit-level guess buffer
    mask0,           \* self._mask0
    mask1,           \* self._mask1
    possible_bytes,  \* self.possible_bytes: per position, the alphabet
    half_possible_bytes, \* self.half_possible_bytes
    target,          \* self.target
    bytes,           \* the array self._bytes refers to
    oldbytes,        \* the array self._oldbytes refers to when it is an array of its own
    aliased,         \* self._oldbytes and self._bytes are the same array
    it,              \* self.it
    count,           \* self.count
    sweep,           \* _deconvolve: the loop variable `it`
    posn,            \* _deconvolve: the loop variable `n`
    packet,          \* what the last deconvolve() returned
    runs,            \* number of deconvolve() calls that returned
    written,         \* history: the setbyte positions the sweeps wrote to
    prevbytes,       \* history: the bytes at the end of the previous sweep
    lastbytes,       \* history: the bytes at the end of the last sweep
    losses,          \* history: the loss at the end of each sweep of this refinement
    returned,        \* history: per returned deconvolve(), its packet and its sweeps
    best,            \* history: the head of the sorted `ans` of the last search
    finders,         \* self.finders: the list of finders given at construction
    fidx,            \* deconvolve(): position of `for F in self.finders`, from 1
    owner,           \* deconvolve(): position of the finder whose find matched, or 0
    stash,           \* per finder of the list: the draft its last find() was given
    draft,           \* history: the bytes and the sweeps of the first refinement
    calls            \* history: the finder operations called, in order

\* What the caller remembers of the apply() calls it has consumed.
VARIABLES
    earlier          \* history: the values the previous apply() of this scope yielded

poolVars == <<processes, seed, pc, idx, work_queue, done_queue, quit_event, wpc,
              started_event, stopped_event, tmp_queue, fitem, fcalls, proc,
              iter_pos, exhausted, sent_count, received_count, received, taken,
              handled, input, out, napply, rejected, backlog, failed>>

vbiVars == <<vpc, vbi, guess, mask0, mask1, possible_bytes, half_possible_bytes,
             target, bytes, oldbytes, aliased, it, count, sweep, posn, packet,
             runs, written, prevbytes, lastbytes, losses, returned, best,
             finders, fidx, owner, stash, draft, calls>>

finderVars == <<finders, fidx, owner, stash, draft, calls>>

callVars == <<earlier>>

vars == <<poolVars, vbiVars, callVars>>

cfgVars == <<processes, seed>>

queueVars == <<work_queue, done_queue>>

workerVars == <<wpc, started_event, stopped_event, tmp_queue, fitem, fcalls, failed>>

applyVars == <<iter_pos, exhausted, sent_count, received_count, received,
               taken, input, out, napply, rejected>>

(* ------------------------------ values -------------------------------- *)

\* An object pickle cannot serialize.
Unpicklable == -1

\* The function holds no item (it waits for its next one).
NoItem == -2

\* What next(iterable) gives in place of an item when the iterator is exhausted.
StopIteration == <<>>

\* The worker processes of the pool: range(processes) in the multi-process
\* pool, none in the single-process pool.
Workers == IF processes > 1 THEN 1..processes ELSE {}

\* The k-th item (from 0) of input iterator s.
InputItem(s, k) == (s * (k + 1)) % NumValues

\* The pure function the pure generator applies to each item.
FOut(x) == 2 * x + 1

\* The pure generator applied to a whole sequence in one process.
RECURSIVE FSeq(_)
FSeq(items) ==
    IF items = <<>> THEN <<>> ELSE <<FOut(Head(items))>> \o FSeq(Tail(items))

\* pickle.dumps(item) raises.
PickleRaises(item) == item[2] = Unpicklable

\* _put_work with the put ahead of the serializability test.
PutWorkUnchecked(queue, item) == Append(queue, item)

\* _put_work: the work queue after self._put_work(item).
PutWork(queue, item) ==
    IF PickleRaises(item) THEN queue ELSE Append(queue, item)

\* A priming loop with no limit.
PrimeFullNever(sent) == FALSE

\* islice(iterable, 32) is used up after `sent` items.
PrimeFull(sent) == sent >= PrimeCount

\* The main loop's sent_count left as it was after a put.
SentAfterPutForgotten(sent) == sent

\* apply(), main loop: sent_count += 1 after self._put_work(next(iterable)).
SentAfterPut(sent) == sent + 1

\* A loop test that stops one result early.
LoopDoneEarly(rc, sc) == ~(rc < sc - 1)

\* apply(): `while received_count < sent_count` ends the loop.
LoopDone(rc, sc) == ~(rc < sc)

\* The result stored under its arrival position, the sequence number ignored.
DictSetByArrival(r, n, item) ==
    LET k == received_count + Cardinality(DOMAIN r)
    IN  [m \in DOMAIN r \cup {k} |-> IF m = k THEN item ELSE r[m]]

\* received[n] = item
DictSet(r, n, item) ==
    [m \in DOMAIN r \cup {n} |-> IF m = n THEN item ELSE r[m]]

\* apply(), `while received_count in received`: the values yielded.
RECURSIVE DrainOut(_, _)
DrainOut(r, c) ==
    IF c \in DOMAIN r THEN <<r[c]>> \o DrainOut(r, c + 1) ELSE <<>>

\* apply(), `while received_count in received`: how many keys are deleted.
RECURSIVE DrainCount(_, _)
DrainCount(r, c) ==
    IF c \in DOMAIN r THEN 1 + DrainCount(r, c + 1) ELSE 0

\* A drain that yields the values but leaves their keys in the map.
DictDelNothing(r, k, c) == r

\* del received[k] for the c keys from k on
DictDel(r, k, c) ==
    [m \in DOMAIN r \ (k..(k + c - 1)) |-> r[m]]

\* denumerate: work_queue.get(timeout=0.1) raises queue.Empty.
WorkGetEmpty(queue) == queue = <<>>

\* What next(iterable) can give: the next numbered item, or StopIteration.
\* `items` is the set of objects the iterator may produce at this position.
IterNext(items) ==
    IF exhausted \/ iter_pos >= MaxLen
    THEN {StopIteration}
    ELSE {StopIteration} \cup {<<iter_pos, x>> : x \in items}

\* The serializable object the input iterator holds at its current position.
GoodItems == {InputItem(seed, iter_pos)}

\* The objects the input iterator may hold when unserializable ones occur.
AnyItems == GoodItems \cup {Unpicklable}

(* ----------------------- decoder: pure functions ---------------------- *)

\* range(10) in _deconvolve.
MaxSweeps == 10

\* self._bitwidth, samples per bit: 5.112 in the code, a whole number here.
BitWidth == 1

\* self.black is the mean of the first 80 samples; of the first BlackLen here.
BlackLen == 2

\* 0x1f, the low five bits kept of a look-ahead byte.
HalfMask == 31

\* 47*8, the length of self.guess.
BufBits == (DataBytes + 5) * 8

\* 2048, the length of self.vbi (the samples end where the guess buffer ends).
NumSamples == (DataBytes + 4) * 8 * BitWidth

Positions == 0..(DataBytes - 1)

Bit(x, j) == (x \div (2 ^ j)) % 2

\* x & y on bytes
BitAnd(x, y) ==
    LET t(j) == Bit(x, j) * Bit(y, j) * (2 ^ j)
    IN  t(0) + t(1) + t(2) + t(3) + t(4) + t(5) + t(6) + t(7)

\* x | y on bytes
BitOr(x, y) == x + y - BitAnd(x, y)

OddParity(x) ==
    (Bit(x, 0) + Bit(x, 1) + Bit(x, 2) + Bit(x, 3)
       + Bit(x, 4) + Bit(x, 5) + Bit(x, 6) + Bit(x, 7)) % 2 = 1

\* The Hamming 8/4 codewords of the values 0..15.
HammTable ==
    <<21, 2, 73, 94, 100, 115, 56, 47, 208, 199, 140, 155, 161, 182, 253, 234>>

\* util.hammbytes, cut to HammCount codewords.
hammbytes == {HammTable[i] : i \in 1..HammCount}

\* The bytes the parity alphabet is drawn from.
ParityTable == <<1, 128, 131, 193, 2, 194, 4, 196>>

\* util.paritybytes, cut to ParityCount bytes.
paritybytes == {x \in {ParityTable[i] : i \in 1..ParityCount} : OddParity(x)}

\* Vbi.possible_bytes = [hammbytes]*2 + [paritybytes]*40
Vbi_possible_bytes == [n \in Positions |-> IF n < 2 THEN hammbytes ELSE paritybytes]

Zeros(len) == [i \in 0..(len - 1) |-> 0]

SampleZeros == [k \in 1..NumSamples |-> 0]

\* The entries of the bit-level buffer that hold byte n.
ByteSlice(n) == ((n + 1) * 8)..((n + 1) * 8 + 7)

\* util.setbyte(buf, n, b): byte b at byte position n+1, low bit first,
\* 0 for a 0 bit and 255 for a 1 bit.
setbyte(buf, n, b) ==
    LET a == (n + 1) * 8
    IN  IF ByteSlice(n) \subseteq DOMAIN buf
        THEN [buf EXCEPT ![a] = 255 * Bit(b, 0), ![a + 1] = 255 * Bit(b, 1),
                         ![a + 2] = 255 * Bit(b, 2), ![a + 3] = 255 * Bit(b, 3),
                         ![a + 4] = 255 * Bit(b, 4), ![a + 5] = 255 * Bit(b, 5),
                         ![a + 6] = 255 * Bit(b, 6), ![a + 7] = 255 * Bit(b, 7)]
        ELSE [i \in DOMAIN buf \cup ByteSlice(n) |->
                 IF i \in ByteSlice(n) THEN 255 * Bit(b, i - a) ELSE buf[i]]

\* The byte held at byte position n+1 of a bit-level buffer.
getbyte(buf, n) ==
    LET t(j) == (buf[(n + 1) * 8 + j] \div 255) * (2 ^ j)
    IN  t(0) + t(1) + t(2) + t(3) + t(4) + t(5) + t(6) + t(7)

\* __init__: self.guess with the pre-padding byte and the three framing bytes.
InitGuess ==
    setbyte(setbyte(setbyte(setbyte(Zeros(BufBits), -1, 0), 0, 85), 1, 85), 2, 39)

\* Sample vectors (self.vbi, self.target, the rendered guess) are sequences:
\* sample i of the code is element i + 1.

\* self.guess_scaler at _guess_x[i] = i - offset, offset 0: linear
\* interpolation between the bit positions _interp_x[k] = (k - 8) * bitwidth,
\* and 0 outside the buffer.  The value is scaled by BitWidth.
ScalerAt(g, i) ==
    LET k == (i \div BitWidth) + 8
        r == i % BitWidth
    IN  IF k > BufBits - 1 \/ (k = BufBits - 1 /\ r > 0) THEN 0
        ELSE IF r = 0 THEN g[k] * BitWidth
        ELSE g[k] * (BitWidth - r) + g[k + 1] * r

\* The vectors are built and summed by halving the index range lo..hi.
RECURSIVE ScalerRange(_, _, _)
ScalerRange(g, lo, hi) ==
    IF lo = hi THEN <<ScalerAt(g, lo - 1)>>
    ELSE LET mid == (lo + hi) \div 2
         IN  ScalerRange(g, lo, mid) \o ScalerRange(g, mid + 1, hi)

\* self.guess_scaler(self._guess_x): the guess on the sample grid.
guess_scaler(g) == ScalerRange(g, 1, NumSamples)

\* The boundary rule of scipy's gaussian_filter1d (mode reflect).
Reflect(k) ==
    IF k < 1 THEN 1 - k ELSE IF k > NumSamples THEN 2 * NumSamples + 1 - k ELSE k

RECURSIVE GaussRange(_, _, _)
GaussRange(v, lo, hi) ==
    IF lo = hi
    THEN <<v[Reflect(lo - 2)] + 4 * v[Reflect(lo - 1)] + 6 * v[lo]
             + 4 * v[Reflect(lo + 1)] + v[Reflect(lo + 2)]>>
    ELSE LET mid == (lo + hi) \div 2
         IN  GaussRange(v, lo, mid) \o GaussRange(v, mid + 1, hi)

\* gauss(v, self._gauss_sd): smoothing with a kernel of whole weights about
\* one bit wide (the result is scaled by 16).
gauss(v) == GaussRange(v, 1, NumSamples)

RECURSIVE MinRange(_, _, _)
MinRange(v, lo, hi) ==
    IF lo = hi THEN v[lo]
    ELSE LET mid == (lo + hi) \div 2
             x == MinRange(v, lo, mid)
             y == MinRange(v, mid + 1, hi)
         IN  IF x < y THEN x ELSE y

RECURSIVE MaxRange(_, _, _)
MaxRange(v, lo, hi) ==
    IF lo = hi THEN v[lo]
    ELSE LET mid == (lo + hi) \div 2
             x == MaxRange(v, lo, mid)
             y == MaxRange(v, mid + 1, hi)
         IN  IF x > y THEN x ELSE y

RECURSIVE NormRange(_, _, _, _, _)
NormRange(v, vmin, vmax, lo, hi) ==
    IF lo = hi THEN <<((v[lo] - vmin) * 255) \div (vmax - vmin)>>
    ELSE LET mid == (lo + hi) \div 2
         IN  NormRange(v, vmin, vmax, lo, mid) \o NormRange(v, vmin, vmax, mid + 1, hi)

\* util.normalise(v): shift and scale so that min -> 0 and max -> 255.
normalise(v) ==
    NormRange(v, MinRange(v, 1, NumSamples), MaxRange(v, 1, NumSamples), 1, NumSamples)

RECURSIVE SumSquare(_, _, _, _)
SumSquare(a, b, lo, hi) ==
    IF lo = hi THEN (a[lo] - b[lo]) * (a[lo] - b[lo])
    ELSE LET mid == (lo + hi) \div 2
         IN  SumSquare(a, b, lo, mid) + SumSquare(a, b, mid + 1, hi)

\* np.sum(np.square(normalise(gauss(guess_scaler(guess_x))) - target))
Diff(g, tgt) ==
    SumSquare(normalise(gauss(guess_scaler(g))), tgt, 1, NumSamples)

RECURSIVE SumUpTo(_, _)
SumUpTo(v, k) == IF k = 0 THEN 0 ELSE v[k] + SumUpTo(v, k - 1)

\* self.black = np.mean(self.vbi[:80]), times BlackLen.
BlackSum(v) == SumUpTo(v, BlackLen)

\* make_guess_mask: the samples appended to the list of buffer bit b, those
\* with _interp_x[b] < gx[i] <= _interp_x[b+1] where gx[i] = i + bitwidth/2.
Bucket(b) ==
    {i \in 0..(NumSamples - 1) :
        /\ 2 * (b - 8) * BitWidth < 2 * i + BitWidth
        /\ 2 * i + BitWidth <= 2 * (b - 7) * BitWidth}

\* mins[n*8+j]
mins(v, n, j) ==
    LET S == {v[i + 1] : i \in Bucket(32 + n * 8 + j)}
    IN  CHOOSE x \in S : \A y \in S : x <= y

\* maxs[n*8+j]
maxs(v, n, j) ==
    LET S == {v[i + 1] : i \in Bucket(32 + n * 8 + j)}
    IN  CHOOSE x \in S : \A y \in S : x >= y

\* mini[j] < self.black + 10.0
BelowBlack(v, n, j) == mins(v, n, j) * BlackLen < BlackSum(v) + 10 * BlackLen

\* maxi[j] > self.black * 2.5
AboveBlack(v, n, j) == 2 * maxs(v, n, j) * BlackLen > 5 * BlackSum(v)

\* make_guess_mask, the loop: self._mask0[i] is 0xff with the bits of the low
\* samples cleared.
LoopMask0(v, n) ==
    LET t(j) == IF BelowBlack(v, n, j) THEN 0 ELSE 2 ^ j
    IN  t(0) + t(1) + t(2) + t(3) + t(4) + t(5) + t(6) + t(7)

\* make_guess_mask, the loop: the bits of the high samples are set in the
\* self._mask1[i] left by the previous call.
LoopMask1(v, m1, n) ==
    LET t(j) == IF AboveBlack(v, n, j) THEN 2 ^ j ELSE 0
    IN  BitOr(m1[n], t(0) + t(1) + t(2) + t(3) + t(4) + t(5) + t(6) + t(7))

\* A make_guess_mask that narrows mask0 by mask1 (mask0 &= ~mask1) instead of
\* widening it.
make_guess_mask0_narrowed(v, m1) ==
    [n \in Positions |-> BitAnd(LoopMask0(v, n), 255 - LoopMask1(v, m1, n))]

\* A make_guess_mask that leaves mask0 as the loop computed it.
make_guess_mask0_loop(v, m1) == [n \in Positions |-> LoopMask0(v, n)]

\* make_guess_mask: self._mask0 |= self._mask1
make_guess_mask0(v, m1) ==
    [n \in Positions |-> BitOr(LoopMask0(v, n), LoopMask1(v, m1, n))]

\* make_guess_mask: tmp = self._mask1 & self._mask0; self._mask1 = tmp
make_guess_mask1(v, m1) ==
    [n \in Positions |-> BitAnd(LoopMask1(v, m1, n), LoopMask0(v, n))]

\* (x&m0)==x==(x|m1)
Admitted(x, m0, m1) == BitAnd(x, m0) = x /\ x = BitOr(x, m1)

\* make_possible_bytes, masked(b, n)
masked(b, m0, m1) == {x \in b : Admitted(x, m0, m1)}

\* A make_possible_bytes that does not look at the masks.
make_possible_bytes_unmasked(seedbytes, m0, m1) == seedbytes

\* A make_possible_bytes without the `or b`.
make_possible_bytes_filtered(seedbytes, m0, m1) ==
    [n \in Positions |-> masked(seedbytes[n], m0[n], m1[n])]

\* make_possible_bytes: self.possible_bytes = [masked(b,n) or b ...]
make_possible_bytes(seedbytes, m0, m1) ==
    [n \in Positions |->
        IF masked(seedbytes[n], m0[n], m1[n]) = {}
        THEN seedbytes[n]
        ELSE masked(seedbytes[n], m0[n], m1[n])]

\* make_possible_bytes: self.half_possible_bytes
make_half_possible_bytes(pb) ==
    [n \in Positions |-> {BitAnd(x, HalfMask) : x \in pb[n]}]

(* --------------------------- decoder: lines --------------------------- *)

\* The two levels of a clean line.
LineLo == 10
LineHi == 200

\* What the samples before the data show: -1 for the signal itself, else a
\* flat level (a dark or a bright lead-in).
LeadLevels == {-1, 4, 255}

\* A damaged sample: <<data bit, level>>, or <<-1, 0>> for none.
Damages == {<<-1, 0>>, <<0, 255>>, <<0, 12>>, <<9, 0>>, <<10, 0>>}

\* The payloads a line may carry: any byte of the alphabet at position 0, the
\* last byte of the alphabet at the other positions.
Payloads ==
    {[n \in Positions |-> IF n = 0 THEN HammTable[k]
                          ELSE IF n < 2 THEN HammTable[HammCount]
                          ELSE ParityTable[ParityCount]] : k \in 1..HammCount}

RECURSIVE SetPayload(_, _, _)
SetPayload(g, p, n) ==
    IF n < 0 THEN g ELSE setbyte(SetPayload(g, p, n - 1), n + 3, p[n])

\* The samples of a line that carries payload p.
Line(p, lead, d) ==
    LET g == guess_scaler(SetPayload(InitGuess, p, DataBytes - 1))
    IN  [k \in 1..NumSamples |->
            IF d[1] >= 0 /\ k - 1 = (24 + d[1]) * BitWidth THEN d[2]
            ELSE IF lead >= 0 /\ k - 1 < BlackLen THEN lead
            ELSE IF 2 * g[k] > 255 * BitWidth THEN LineHi ELSE LineLo]

Lines == {Line(p, lead, d) : p \in Payloads, lead \in LeadLevels, d \in Damages}

\* Vbi(vbi, []): an empty list of finders.
NoFinders ==
    /\ finders = <<>>
    /\ fidx = 1
    /\ owner = 0
    /\ stash = <<>>
    /\ draft = [bytes |-> Zeros(DataBytes), sweeps |-> 0]
    /\ calls = <<>>

\* The decoder part of the state when no decoder is in use: no line and no
\* arrays.
NoVbi ==
    /\ NoFinders
    /\ vpc = "none"
    /\ vbi = <<>>
    /\ guess = <<>>
    /\ mask0 = <<>>
    /\ mask1 = <<>>
    /\ possible_bytes = <<>>
    /\ half_possible_bytes = <<>>
    /\ target = <<>>
    /\ bytes = <<>>
    /\ oldbytes = <<>>
    /\ aliased = FALSE
    /\ it = 0
    /\ count = 0
    /\ sweep = 0
    /\ posn = 0
    /\ packet = <<>>
    /\ runs = 0
    /\ written = {}
    /\ prevbytes = <<>>
    /\ lastbytes = <<>>
    /\ losses = <<>>
    /\ returned = <<>>
    /\ best = <<0, 0, 0>>

(* ------------------------------- Init --------------------------------- *)

\* PureGeneratorPool(function, processes): the pool after construction.
PoolInit ==
    /\ processes \in 1..MaxProcs
    /\ seed \in 1..MaxSeed
    /\ pc = "init"
    /\ idx = 0
    /\ work_queue = <<>>
    /\ done_queue = <<>>
    /\ quit_event = FALSE
    /\ wpc = [w \in Workers |-> "new"]
    /\ started_event = [w \in Workers |-> FALSE]
    /\ stopped_event = [w \in Workers |-> FALSE]
    /\ tmp_queue = [w \in Workers |-> <<>>]
    /\ fitem = [w \in Workers |-> NoItem]
    /\ fcalls = [p \in Workers \cup {0} |-> IF p = 0 /\ processes = 1 THEN 1 ELSE 0]
    /\ proc = IF processes = 1 THEN "created" ELSE "none"
    /\ iter_pos = 0
    /\ exhausted = FALSE
    /\ sent_count = 0
    /\ received_count = 0
    /\ received = <<>>
    /\ taken = 0
    /\ handled = 0
    /\ input = <<>>
    /\ out = <<>>
    /\ napply = 0
    /\ rejected = {}
    /\ backlog = 0
    /\ failed = {}
    /\ earlier = <<>>

\* The state after construction of a pool; no decoder is in use.
Init == PoolInit /\ NoVbi

(* ---------------------- multi-process pool: caller -------------------- *)

\* __enter__, first loop: start every process.
EnterStart ==
    /\ pc = "init"
    /\ processes > 1
    /\ wpc' = [w \in Workers |-> "boot"]
    /\ pc' = "enter"
    /\ idx' = 1
    /\ UNCHANGED <<started_event, stopped_event, tmp_queue, fitem, fcalls, failed>>
    /\ UNCHANGED <<vbiVars, callVars, cfgVars, queueVars, applyVars, quit_event, proc, handled, backlog>>

\* __enter__, second loop: p[1].wait(timeout=1) returns True.
EnterWait ==
    /\ pc = "enter"
    /\ started_event[idx]
    /\ IF idx = processes
       THEN pc' = "ready" /\ idx' = 0
       ELSE pc' = pc /\ idx' = idx + 1
    /\ UNCHANGED <<vbiVars, callVars, cfgVars, queueVars, workerVars, applyVars, quit_event, proc,
                   handled, backlog>>

\* __enter__, second loop: p[1].wait(timeout=1) returns False and TimeoutError
\* leaves __enter__; the with statement of itermap does not call __exit__ then.
EnterTimeout ==
    /\ pc = "enter"
    /\ ~started_event[idx]
    /\ pc' = "enter_failed"
    /\ UNCHANGED <<vbiVars, callVars, cfgVars, queueVars, workerVars, applyVars, idx, quit_event,
                   proc, handled, backlog>>

\* apply() is called and its generator started: enumerate, the two counters.
ApplyStart ==
    /\ pc \in {"ready", "applied"}
    /\ processes > 1
    /\ napply < MaxApply
    /\ napply' = napply + 1
    /\ iter_pos' = 0
    /\ exhausted' = FALSE
    /\ sent_count' = 0
    /\ received_count' = 0
    /\ received' = <<>>
    /\ taken' = 0
    /\ handled' = 0
    /\ input' = <<>>
    /\ out' = <<>>
    /\ pc' = "prime"
    /\ UNCHANGED <<vbiVars, callVars, cfgVars, queueVars, workerVars, idx, quit_event, proc,
                   rejected, backlog>>

\* apply(), the priming loop: one round of `for item in islice(iterable, 32)`,
\* or its end.
ApplyPrime(items) ==
    /\ pc = "prime"
    /\ IF PrimeFull(sent_count)
       THEN /\ pc' = "loop"
            /\ UNCHANGED <<work_queue, iter_pos, exhausted, sent_count, input, rejected>>
       ELSE \E item \in IterNext(items) :
              IF item = StopIteration
              THEN /\ pc' = "loop"
                   /\ exhausted' = TRUE
                   /\ UNCHANGED <<work_queue, iter_pos, sent_count, input, rejected>>
              ELSE /\ iter_pos' = iter_pos + 1
                   /\ input' = Append(input, item[2])
                   /\ work_queue' = PutWork(work_queue, item)
                   /\ IF PickleRaises(item)
                      THEN /\ pc' = "pickle_error"
                           /\ rejected' = rejected \cup {item[1]}
                           /\ UNCHANGED sent_count
                      ELSE /\ pc' = pc
                           /\ sent_count' = sent_count + 1
                           /\ UNCHANGED rejected
                   /\ UNCHANGED exhausted
    /\ UNCHANGED <<vbiVars, callVars, cfgVars, workerVars, idx, done_queue, quit_event, proc,
                   received_count, received, taken, handled, out, napply, backlog>>

\* apply(): `while received_count < sent_count` is false, the generator returns.
ApplyDone ==
    /\ pc = "loop"
    /\ LoopDone(received_count, sent_count)
    /\ pc' = "applied"
    /\ UNCHANGED <<vbiVars, callVars, cfgVars, queueVars, workerVars, applyVars, idx, quit_event,
                   proc, handled, backlog>>

\* apply(), one round of the while loop in which done_queue.get returns (n, item):
\* the result is stored, the dict is drained from received_count on, and the
\* next input item, if there is one, is submitted.
ApplyRecv(items) ==
    /\ pc = "loop"
    /\ ~LoopDone(received_count, sent_count)
    /\ done_queue # <<>>
    /\ LET n     == Head(done_queue)[1]
           item  == Head(done_queue)[2]
           r1    == DictSet(received, n, item)
           k     == DrainCount(r1, received_count)
       IN  /\ done_queue' = Tail(done_queue)
           /\ taken' = taken + 1
           /\ out' = out \o DrainOut(r1, received_count)
           /\ received' = DictDel(r1, received_count, k)
           /\ received_count' = received_count + k
    /\ \E nxt \in IterNext(items) :
         IF nxt = StopIteration
         THEN /\ exhausted' = TRUE
              /\ pc' = pc
              /\ UNCHANGED <<work_queue, iter_pos, sent_count, input, rejected>>
         ELSE /\ iter_pos' = iter_pos + 1
              /\ input' = Append(input, nxt[2])
              /\ work_queue' = PutWork(work_queue, nxt)
              /\ IF PickleRaises(nxt)
                 THEN /\ pc' = "pickle_error"
                      /\ rejected' = rejected \cup {nxt[1]}
                      /\ UNCHANGED sent_count
                 ELSE /\ pc' = pc
                      /\ sent_count' = SentAfterPut(sent_count)
                      /\ UNCHANGED rejected
              /\ UNCHANGED exhausted
    /\ UNCHANGED <<vbiVars, callVars, cfgVars, workerVars, idx, quit_event, proc, handled, napply, backlog>>

\* apply(), one round of the while loop in which done_queue.get raises
\* queue.Empty: ChildProcessError if some stopped event is set.
ApplyEmpty ==
    /\ pc = "loop"
    /\ ~LoopDone(received_count, sent_count)
    /\ done_queue = <<>>
    /\ IF \E w \in Workers : stopped_event[w]
       THEN pc' = "child_error"
       ELSE pc' = pc
    /\ UNCHANGED <<vbiVars, callVars, cfgVars, queueVars, workerVars, applyVars, idx, quit_event,
                   proc, handled, backlog>>

\* __exit__: the quit event is set.
ExitStart ==
    /\ pc \in {"ready", "applied", "pickle_error", "child_error"}
    /\ processes > 1
    /\ quit_event' = TRUE
    /\ backlog' = Len(work_queue)
    /\ pc' = "exit_drain"
    /\ UNCHANGED <<vbiVars, callVars, cfgVars, queueVars, workerVars, applyVars, idx, proc, handled>>

\* __exit__: one round of `while not all(p[2].is_set() ...)`, or its end.
ExitDrain ==
    /\ pc = "exit_drain"
    /\ IF \A w \in Workers : stopped_event[w]
       THEN /\ pc' = "exit_join"
            /\ idx' = 1
            /\ UNCHANGED done_queue
       ELSE /\ pc' = pc
            /\ idx' = idx
            /\ done_queue' = IF done_queue = <<>> THEN done_queue ELSE Tail(done_queue)
    /\ UNCHANGED <<vbiVars, callVars, cfgVars, workerVars, applyVars, work_queue, quit_event, proc,
                   handled, backlog>>

\* __exit__: p[0].join() returns for the next process of the pool.
ExitJoin ==
    /\ pc = "exit_join"
    /\ wpc[idx] \in {"exited", "killed"}
    /\ IF idx = processes
       THEN pc' = "closed" /\ idx' = 0
       ELSE pc' = pc /\ idx' = idx + 1
    /\ UNCHANGED <<vbiVars, callVars, cfgVars, queueVars, workerVars, applyVars, quit_event, proc,
                   handled, backlog>>

(* --------------------- multi-process pool: workers -------------------- *)

\* worker(): SIGINT ignored, tmp_queue made, started_event set, function called.
WorkerStart(w) ==
    /\ wpc[w] = "boot"
    /\ started_event' = [started_event EXCEPT ![w] = TRUE]
    /\ tmp_queue' = [tmp_queue EXCEPT ![w] = <<>>]
    /\ fcalls' = [fcalls EXCEPT ![w] = @ + 1]
    /\ wpc' = [wpc EXCEPT ![w] = "get"]
    /\ UNCHANGED <<stopped_event, fitem, failed>>
    /\ UNCHANGED <<vbiVars, callVars, cfgVars, queueVars, applyVars, pc, idx, quit_event, proc,
                   handled, backlog>>

\* A worker that calls the function again for every item it takes.
DenumerateGetCalling(w) ==
    /\ wpc[w] = "get"
    /\ ~WorkGetEmpty(work_queue)
    /\ work_queue' = Tail(work_queue)
    /\ tmp_queue' = [tmp_queue EXCEPT ![w] = Append(@, Head(work_queue)[1])]
    /\ fitem' = [fitem EXCEPT ![w] = Head(work_queue)[2]]
    /\ fcalls' = [fcalls EXCEPT ![w] = @ + 1]
    /\ wpc' = [wpc EXCEPT ![w] = "yield"]
    /\ UNCHANGED <<started_event, stopped_event, failed>>
    /\ UNCHANGED <<vbiVars, callVars, cfgVars, applyVars, pc, idx, done_queue, quit_event, proc,
                   handled, backlog>>

\* denumerate: work_queue.get returns (n, item); n is stashed, item goes to the function.
DenumerateGet(w) ==
    /\ wpc[w] = "get"
    /\ ~WorkGetEmpty(work_queue)
    /\ work_queue' = Tail(work_queue)
    /\ tmp_queue' = [tmp_queue EXCEPT ![w] = Append(@, Head(work_queue)[1])]
    /\ fitem' = [fitem EXCEPT ![w] = Head(work_queue)[2]]
    /\ wpc' = [wpc EXCEPT ![w] = "yield"]
    /\ UNCHANGED <<started_event, stopped_event, fcalls, failed>>
    /\ UNCHANGED <<vbiVars, callVars, cfgVars, applyVars, pc, idx, done_queue, quit_event, proc,
                   handled, backlog>>

\* A denumerate that looks at the quit event before it looks at the queue.
DenumerateQuitFirst(w) ==
    /\ wpc[w] = "get"
    /\ WorkGetEmpty(work_queue) \/ quit_event
    /\ IF quit_event
       THEN /\ wpc' = [wpc EXCEPT ![w] = "stopped"]
            /\ stopped_event' = [stopped_event EXCEPT ![w] = TRUE]
       ELSE UNCHANGED <<wpc, stopped_event>>
    /\ UNCHANGED <<started_event, tmp_queue, fitem, fcalls, failed>>
    /\ UNCHANGED <<vbiVars, callVars, cfgVars, queueVars, applyVars, pc, idx, quit_event, proc,
                   handled, backlog>>

\* denumerate: work_queue.get raises queue.Empty. With quit set the generator
\* returns, the function and renumerate finish, and worker's finally sets stopped.
DenumerateEmpty(w) ==
    /\ wpc[w] = "get"
    /\ WorkGetEmpty(work_queue)
    /\ IF quit_event
       THEN /\ wpc' = [wpc EXCEPT ![w] = "stopped"]
            /\ stopped_event' = [stopped_event EXCEPT ![w] = TRUE]
       ELSE UNCHANGED <<wpc, stopped_event>>
    /\ UNCHANGED <<started_event, tmp_queue, fitem, fcalls, failed>>
    /\ UNCHANGED <<vbiVars, callVars, cfgVars, queueVars, applyVars, pc, idx, quit_event, proc,
                   handled, backlog>>

\* A renumerate that numbers the results by the order in which they come out
\* of the workers instead of by the stashed number.
RenumerateByCount(w) ==
    /\ wpc[w] = "yield"
    /\ tmp_queue[w] # <<>>
    /\ done_queue' = Append(done_queue, <<handled, FOut(fitem[w])>>)
    /\ tmp_queue' = [tmp_queue EXCEPT ![w] = Tail(@)]
    /\ fitem' = [fitem EXCEPT ![w] = NoItem]
    /\ handled' = handled + 1
    /\ wpc' = [wpc EXCEPT ![w] = "get"]
    /\ UNCHANGED <<started_event, stopped_event, fcalls, failed>>
    /\ UNCHANGED <<vbiVars, callVars, cfgVars, applyVars, pc, idx, work_queue, quit_event, proc, backlog>>

\* renumerate: the function yields its result for the item, the oldest stashed
\* number is taken from tmp_queue and the pair is put on done_queue.
Renumerate(w) ==
    /\ wpc[w] = "yield"
    /\ tmp_queue[w] # <<>>
    /\ done_queue' = Append(done_queue, <<Head(tmp_queue[w]), FOut(fitem[w])>>)
    /\ tmp_queue' = [tmp_queue EXCEPT ![w] = Tail(@)]
    /\ fitem' = [fitem EXCEPT ![w] = NoItem]
    /\ handled' = handled + 1
    /\ wpc' = [wpc EXCEPT ![w] = "get"]
    /\ UNCHANGED <<started_event, stopped_event, fcalls, failed>>
    /\ UNCHANGED <<vbiVars, callVars, cfgVars, applyVars, pc, idx, work_queue, quit_event, proc, backlog>>

\* The worker process ends after worker() returned or raised.
WorkerExit(w) ==
    /\ wpc[w] = "stopped"
    /\ wpc' = [wpc EXCEPT ![w] = "exited"]
    /\ UNCHANGED <<started_event, stopped_event, tmp_queue, fitem, fcalls, failed>>
    /\ UNCHANGED <<vbiVars, callVars, cfgVars, queueVars, applyVars, pc, idx, quit_event, proc,
                   handled, backlog>>

\* An exception leaves the function (during its setup or while it works on an
\* item): worker's finally sets the stopped event, quit set or not.
WorkerCrash(w) ==
    /\ wpc[w] \in {"get", "yield"}
    /\ Cardinality(failed) < MaxFailures
    /\ failed' = failed \cup {w}
    /\ wpc' = [wpc EXCEPT ![w] = "stopped"]
    /\ stopped_event' = [stopped_event EXCEPT ![w] = TRUE]
    /\ UNCHANGED <<started_event, tmp_queue, fitem, fcalls>>
    /\ UNCHANGED <<vbiVars, callVars, cfgVars, queueVars, applyVars, pc, idx, quit_event, proc,
                   handled, backlog>>

\* The worker process is killed: it ends where it is, and the finally clause
\* of worker() does not run.
WorkerKill(w) ==
    /\ wpc[w] \in {"boot", "get", "yield"}
    /\ Cardinality(failed) < MaxFailures
    /\ failed' = failed \cup {w}
    /\ wpc' = [wpc EXCEPT ![w] = "killed"]
    /\ UNCHANGED <<started_event, stopped_event, tmp_queue, fitem, fcalls>>
    /\ UNCHANGED <<vbiVars, callVars, cfgVars, queueVars, applyVars, pc, idx, quit_event, proc,
                   handled, backlog>>

(* ------------------------- single-process pool ------------------------ *)

\* _PureGeneratorPoolSingle.__enter__
SingleEnter ==
    /\ pc = "init"
    /\ processes = 1
    /\ pc' = "ready"
    /\ UNCHANGED <<vbiVars, callVars, cfgVars, queueVars, workerVars, applyVars, idx, quit_event,
                   proc, handled, backlog>>

\* _PureGeneratorPoolSingle.apply is called and its generator started.
SingleApplyStart ==
    /\ pc \in {"ready", "applied"}
    /\ processes = 1
    /\ napply < MaxApply
    /\ napply' = napply + 1
    /\ iter_pos' = 0
    /\ exhausted' = FALSE
    /\ input' = <<>>
    /\ out' = <<>>
    /\ pc' = "single_loop"
    /\ UNCHANGED <<sent_count, received_count, received, taken, rejected>>
    /\ UNCHANGED <<vbiVars, callVars, cfgVars, queueVars, workerVars, idx, quit_event, proc,
                   handled, backlog>>

\* _PureGeneratorPoolSingle.apply, one round of `for item in iterable`: the item
\* is put on the queue and next(self._proc) makes the function take it from
\* self._work and yield its result.
SingleApplyStep(items) ==
    /\ pc = "single_loop"
    /\ \E item \in IterNext(items) :
         IF item = StopIteration
         THEN /\ pc' = "applied"
              /\ exhausted' = TRUE
              /\ UNCHANGED <<iter_pos, input, out, proc, work_queue>>
         ELSE /\ iter_pos' = iter_pos + 1
              /\ input' = Append(input, item[2])
              /\ work_queue' = Tail(Append(work_queue, item[2]))
              /\ out' = Append(out, FOut(Head(Append(work_queue, item[2]))))
              /\ proc' = "suspended"
              /\ pc' = pc
              /\ UNCHANGED exhausted
    /\ UNCHANGED <<sent_count, received_count, received, taken, napply, rejected>>
    /\ UNCHANGED <<vbiVars, callVars, cfgVars, workerVars, idx, done_queue, quit_event, handled, backlog>>

\* _PureGeneratorPoolSingle.__exit__: next(self._proc) finds self._work empty,
\* the function returns and StopIteration is swallowed.
SingleExit ==
    /\ pc \in {"ready", "applied"}
    /\ processes = 1
    /\ work_queue = <<>>
    /\ proc' = "finished"
    /\ pc' = "closed"
    /\ UNCHANGED <<vbiVars, callVars, cfgVars, queueVars, workerVars, applyVars, idx, quit_event,
                   handled, backlog>>

(* --------------------------- specifications --------------------------- *)

\* One step of the caller of the multi-process pool.
Dispatcher(items) ==
    \/ EnterStart
    \/ EnterWait
    \/ ApplyStart
    \/ ApplyPrime(items)
    \/ ApplyDone
    \/ ApplyRecv(items)
    \/ ApplyEmpty
    \/ ExitStart
    \/ ExitDrain
    \/ ExitJoin

\* One step of the caller of the single-process pool.
Single(items) ==
    \/ SingleEnter
    \/ SingleApplyStart
    \/ SingleApplyStep(items)
    \/ SingleExit

\* One step of worker process w.
Worker(w) ==
    \/ WorkerStart(w)
    \/ DenumerateGet(w)
    \/ DenumerateEmpty(w)
    \/ Renumerate(w)
    \/ WorkerExit(w)

\* Serializable items, workers that start in time and do not fail.
Next ==
    \/ Dispatcher(GoodItems)
    \/ Single(GoodItems)
    \/ \E w \in Workers : Worker(w)

Spec == Init /\ [][Next]_vars

\* The caller keeps running (it consumes apply() and leaves the scope) and so
\* does every worker process.
Fairness ==
    /\ WF_vars(Dispatcher(GoodItems))
    /\ WF_vars(Single(GoodItems))
    /\ \A w \in 1..MaxProcs : WF_vars(w \in Workers /\ Worker(w))

\* Termination does not depend on the payloads: the specifications with
\* fairness take the first input iterator only.
InitOneInput == Init /\ seed = 1

FairSpec == InitOneInput /\ [][Next]_vars /\ Fairness

\* As Spec, with input items that may not be serializable.
NextInput ==
    \/ Dispatcher(AnyItems)
    \/ Single(GoodItems)
    \/ \E w \in Workers : Worker(w)

SpecInput == Init /\ [][NextInput]_vars

\* Fairness, for a caller whose items may not be serializable.
FairnessInput ==
    /\ WF_vars(Dispatcher(AnyItems))
    /\ WF_vars(Single(GoodItems))
    /\ \A w \in 1..MaxProcs : WF_vars(w \in Workers /\ Worker(w))

FairInput == InitOneInput /\ [][NextInput]_vars /\ FairnessInput

\* As SpecInput, with workers that start late, crash or are killed.
NextFaults ==
    \/ Dispatcher(AnyItems)
    \/ Single(GoodItems)
    \/ \E w \in Workers : Worker(w)
    \/ EnterTimeout
    \/ \E w \in Workers : WorkerCrash(w)
    \/ \E w \in Workers : WorkerKill(w)

SpecFaults == Init /\ [][NextFaults]_vars

FairFaults == InitOneInput /\ [][NextFaults]_vars /\ FairnessInput

(* ------------------- several apply() calls in a scope ----------------- *)

\* The caller passes a different iterator to each apply() of the scope.
CallItems == {InputItem(seed + napply - 1, iter_pos)}

\* An apply() whose two counters live on from the call before.
ApplyStartKeepsCounts ==
    /\ pc \in {"ready", "applied"}
    /\ processes > 1
    /\ napply < MaxApply
    /\ napply' = napply + 1
    /\ iter_pos' = 0
    /\ exhausted' = FALSE
    /\ UNCHANGED <<sent_count, received_count>>
    /\ received' = <<>>
    /\ taken' = 0
    /\ handled' = 0
    /\ input' = <<>>
    /\ out' = <<>>
    /\ earlier' = out
    /\ pc' = "prime"
    /\ UNCHANGED <<vbiVars, cfgVars, queueVars, workerVars, idx, quit_event, proc,
                   rejected, backlog>>

\* apply() is called and its generator started, as ApplyStart; the caller
\* keeps what the call before has yielded.
ApplyStartRecorded ==
    /\ pc \in {"ready", "applied"}
    /\ processes > 1
    /\ napply < MaxApply
    /\ napply' = napply + 1
    /\ iter_pos' = 0
    /\ exhausted' = FALSE
    /\ sent_count' = 0
    /\ received_count' = 0
    /\ received' = <<>>
    /\ taken' = 0
    /\ handled' = 0
    /\ input' = <<>>
    /\ out' = <<>>
    /\ earlier' = out
    /\ pc' = "prime"
    /\ UNCHANGED <<vbiVars, cfgVars, queueVars, workerVars, idx, quit_event, proc,
                   rejected, backlog>>

\* One step of a caller that consumes every apply() to its end before it
\* calls the next.
DispatcherCalls ==
    \/ EnterStart
    \/ EnterWait
    \/ ApplyStartRecorded
    \/ ApplyPrime(CallItems)
    \/ ApplyDone
    \/ ApplyRecv(CallItems)
    \/ ApplyEmpty
    \/ ExitStart
    \/ ExitDrain
    \/ ExitJoin

NextCalls ==
    \/ DispatcherCalls
    \/ \E w \in Workers : Worker(w)

\* A multi-process pool.
InitCalls == Init /\ processes > 1

SpecCalls == InitCalls /\ [][NextCalls]_vars

(* ------------------------------ decoder ------------------------------- *)

\* Vbi(vbi, finders): the decoder after construction for one of the lines, but
\* for self.finders; the pool is not in use.
NewVbi ==
    /\ PoolInit
    /\ processes = 1
    /\ seed = 1
    /\ vpc = "constructed"
    /\ vbi \in Lines
    /\ guess = InitGuess
    /\ mask0 = Zeros(DataBytes)
    /\ mask1 = Zeros(DataBytes)
    /\ possible_bytes = Vbi_possible_bytes
    /\ half_possible_bytes = [n \in Positions |-> {}]
    /\ target = SampleZeros
    /\ bytes = Zeros(DataBytes)
    /\ oldbytes = Zeros(DataBytes)
    /\ aliased = FALSE
    /\ it = 0
    /\ count = 0
    /\ sweep = 0
    /\ posn = 0
    /\ packet = Zeros(DataBytes)
    /\ runs = 0
    /\ written = {}
    /\ prevbytes = Zeros(DataBytes)
    /\ lastbytes = Zeros(DataBytes)
    /\ losses = <<>>
    /\ returned = <<>>
    /\ best = <<0, 0, 0>>

\* Vbi(vbi, []): a decoder with an empty list of finders.
InitVbi == NewVbi /\ NoFinders

\* The order of the tuples (diff, b1, b2) that ans.sort() uses.
TupleLE(t, u) ==
    \/ t[1] < u[1]
    \/ t[1] = u[1] /\ t[2] < u[2]
    \/ t[1] = u[1] /\ t[2] = u[2] /\ t[3] <= u[3]

\* A sort that puts the largest tuple first.
SortHeadLargest(ans) == CHOOSE t \in ans : \A u \in ans : TupleLE(u, t)

\* ans.sort(); ans[0]
SortHead(ans) == CHOOSE t \in ans : \A u \in ans : TupleLE(t, u)

\* A commit one byte too low in the buffer.
CommitAtFraming(n) == n + 2

\* setbyte(self.guess, n+3, ...): where the byte of position n goes.
CommitAt(n) == n + 3

\* A look-ahead written one byte further than the next position.
LookAtBeyond(n) == n + 5

\* setbyte(self.guess, n+4, b2): where the look-ahead byte of position n goes.
LookAt(n) == n + 4

\* A look-ahead that, at the last position, takes the candidates of that
\* position instead of the single byte 0.
LookAheadClamped(n) ==
    IF n < DataBytes - 1 THEN half_possible_bytes[n + 1] ELSE half_possible_bytes[n]

\* _deconvolve: nnb, the look-ahead candidates of position n.
LookAhead(n) == IF n < DataBytes - 1 THEN half_possible_bytes[n + 1] ELSE {0}

\* _deconvolve: the list `ans` of position n, one tuple per pair (b1, b2).
Answers(n) ==
    {<<Diff(setbyte(setbyte(guess, CommitAt(n), b1), LookAt(n), b2), target), b1, b2>> :
        b1 \in possible_bytes[n], b2 \in LookAhead(n)}

\* What self._oldbytes reads as: the array of self._bytes itself once
\* `self._oldbytes = self._bytes` has run.
OldBytes == IF aliased THEN bytes ELSE oldbytes

\* A deconvolve() that leaves self._oldbytes as the previous call left it.
DeconvolveKeepsOldBytes ==
    /\ vpc \in {"constructed", "returned"}
    /\ runs < MaxRuns
    /\ mask0' = make_guess_mask0(vbi, mask1)
    /\ mask1' = make_guess_mask1(vbi, mask1)
    /\ possible_bytes' = make_possible_bytes(Vbi_possible_bytes, mask0', mask1')
    /\ half_possible_bytes' = make_half_possible_bytes(possible_bytes')
    /\ target' = normalise(gauss(vbi))
    /\ bytes' = Zeros(DataBytes)
    /\ oldbytes' = OldBytes
    /\ aliased' = FALSE
    /\ it' = it + 1
    /\ sweep' = 0
    /\ posn' = 0
    /\ vpc' = "sweep"
    /\ prevbytes' = Zeros(DataBytes)
    /\ lastbytes' = Zeros(DataBytes)
    /\ losses' = <<>>
    /\ UNCHANGED <<vbi, guess, count, packet, runs, written, returned, best>>
    /\ UNCHANGED <<poolVars, callVars, finderVars>>

\* deconvolve(), up to the first line of the first sweep: the masks, the
\* alphabets, the target, the two byte arrays, `self.it += 1`.
Deconvolve ==
    /\ vpc \in {"constructed", "returned"}
    /\ runs < MaxRuns
    /\ mask0' = make_guess_mask0(vbi, mask1)
    /\ mask1' = make_guess_mask1(vbi, mask1)
    /\ possible_bytes' = make_possible_bytes(Vbi_possible_bytes, mask0', mask1')
    /\ half_possible_bytes' = make_half_possible_bytes(possible_bytes')
    /\ target' = normalise(gauss(vbi))
    /\ bytes' = Zeros(DataBytes)
    /\ oldbytes' = Zeros(DataBytes)
    /\ aliased' = FALSE
    /\ it' = it + 1
    /\ sweep' = 0
    /\ posn' = 0
    /\ vpc' = "sweep"
    /\ prevbytes' = Zeros(DataBytes)
    /\ lastbytes' = Zeros(DataBytes)
    /\ losses' = <<>>
    /\ UNCHANGED <<vbi, guess, count, packet, runs, written, returned, best>>
    /\ UNCHANGED <<poolVars, callVars, finderVars>>

\* _deconvolve, one round of `for n in range(42)`: a single candidate is
\* committed; otherwise every pair (b1, b2) is rendered and compared, the b1 of
\* the first tuple of the sorted list is committed, and position n+1 keeps the
\* b2 that was tried last (the look-ahead list has no defined order).
SweepPosition ==
    /\ vpc = "sweep"
    /\ IF Cardinality(possible_bytes[posn]) = 1
       THEN LET b == CHOOSE x \in possible_bytes[posn] : TRUE
            IN  /\ guess' = setbyte(guess, CommitAt(posn), b)
                /\ bytes' = [bytes EXCEPT ![posn] = b]
                /\ written' = written \cup {CommitAt(posn)}
                /\ best' = <<-1, b, -1>>
                /\ UNCHANGED count
       ELSE LET head == SortHead(Answers(posn))
            IN  /\ \E last \in LookAhead(posn) :
                     guess' = setbyte(setbyte(guess, LookAt(posn), last),
                                      CommitAt(posn), head[2])
                /\ bytes' = [bytes EXCEPT ![posn] = head[2]]
                /\ written' = written \cup {CommitAt(posn), LookAt(posn)}
                /\ best' = head
                /\ count' = count + Cardinality(possible_bytes[posn] \X LookAhead(posn))
    /\ IF posn < DataBytes - 1
       THEN posn' = posn + 1 /\ vpc' = vpc
       ELSE posn' = posn /\ vpc' = "check"
    /\ UNCHANGED <<vbi, mask0, mask1, possible_bytes, half_possible_bytes, target,
                   oldbytes, aliased, it, sweep, packet, runs, prevbytes,
                   lastbytes, losses, returned>>
    /\ UNCHANGED <<poolVars, callVars, finderVars>>

\* _deconvolve, the end of a sweep: break when self._bytes equals
\* self._oldbytes; otherwise `self._oldbytes = self._bytes` and the next
\* round of `for it in range(10)`, if there is one.
SweepEnd ==
    /\ vpc = "check"
    /\ prevbytes' = lastbytes
    /\ lastbytes' = bytes
    /\ losses' = Append(losses, Diff(guess, target))
    /\ IF bytes = OldBytes
       THEN /\ vpc' = "refined"
            /\ UNCHANGED <<aliased, sweep, it, posn>>
       ELSE /\ aliased' = TRUE
            /\ IF sweep + 1 < MaxSweeps
               THEN /\ sweep' = sweep + 1
                    /\ it' = it + 1
                    /\ posn' = 0
                    /\ vpc' = "sweep"
               ELSE /\ vpc' = "refined"
                    /\ UNCHANGED <<sweep, it, posn>>
    /\ UNCHANGED <<vbi, guess, mask0, mask1, possible_bytes, half_possible_bytes,
                   target, bytes, oldbytes, count, packet, runs, written,
                   returned, best>>
    /\ UNCHANGED <<poolVars, callVars, finderVars>>

\* deconvolve(), after _deconvolve: no finder is installed, the packet is the
\* refined bytes.
DeconvolveReturn ==
    /\ vpc = "refined"
    /\ packet' = bytes
    /\ runs' = runs + 1
    /\ returned' = Append(returned, [packet |-> bytes, it |-> it,
                                     sweeps |-> Len(losses), last |-> lastbytes,
                                     prev |-> prevbytes])
    /\ vpc' = "returned"
    /\ UNCHANGED <<vbi, guess, mask0, mask1, possible_bytes, half_possible_bytes,
                   target, bytes, oldbytes, aliased, it, count, sweep, posn,
                   written, prevbytes, lastbytes, losses, best>>
    /\ UNCHANGED <<poolVars, callVars, finderVars>>

\* One step of the caller of the decoder.
NextVbi ==
    \/ Deconvolve
    \/ SweepPosition
    \/ SweepEnd
    \/ DeconvolveReturn

SpecVbi == InitVbi /\ [][NextVbi]_vars

(* ------------------------- decoder with finders ----------------------- *)

\* A finder recognises a draft by the byte at one position and regenerates
\* the first header byte.
FinderA == [pos |-> 1, keys |-> {HammTable[HammCount]}, head |-> HammTable[1]]

FinderB == [pos |-> 0, keys |-> {HammTable[1], HammTable[2]}, head |-> HammTable[2]]

FinderC == [pos |-> DataBytes - 1, keys |-> {ParityTable[1]}, head |-> HammTable[3]]

\* The lists of finders a decoder is constructed with.
FinderLists == {<<FinderA, FinderB>>, <<FinderB, FinderA>>, <<FinderC, FinderA>>}

\* F.find(draft)
find(F, d) == d[F.pos] \in F.keys

\* F.possible_bytes
Finder_possible_bytes(F) ==
    [n \in Positions |-> IF n = F.pos THEN F.keys ELSE Vbi_possible_bytes[n]]

\* F.fixup(), st being the draft given to the last F.find
fixup(F, st) == [st EXCEPT ![0] = F.head]

\* The lines given to a decoder that has finders.
FinderLines == {Line(p, 255, d) : p \in Payloads, d \in Damages}

\* Vbi(vbi, finders) with one of the lists of finders.
InitFinders ==
    /\ NewVbi
    /\ vbi \in FinderLines
    /\ finders \in FinderLists
    /\ fidx = 1
    /\ owner = 0
    /\ stash = [k \in 1..Len(finders) |-> Zeros(DataBytes)]
    /\ draft = [bytes |-> Zeros(DataBytes), sweeps |-> 0]
    /\ calls = <<>>

\* A finder loop in which only the last finder of the list can own the line.
TryFinderLastOnly ==
    /\ vpc = "refined"
    /\ owner = 0
    /\ fidx <= Len(finders)
    /\ calls' = Append(calls, <<"find", fidx>>)
    /\ stash' = [stash EXCEPT ![fidx] = bytes]
    /\ draft' = IF fidx = 1 THEN [bytes |-> bytes, sweeps |-> Len(losses)] ELSE draft
    /\ packet' = bytes
    /\ IF find(finders[fidx], bytes) /\ fidx = Len(finders)
       THEN /\ owner' = fidx
            /\ possible_bytes' =
                   make_possible_bytes(Finder_possible_bytes(finders[fidx]), mask0, mask1)
            /\ half_possible_bytes' = make_half_possible_bytes(possible_bytes')
            /\ it' = it + 1
            /\ sweep' = 0
            /\ posn' = 0
            /\ losses' = <<>>
            /\ vpc' = "sweep"
            /\ UNCHANGED fidx
       ELSE /\ fidx' = fidx + 1
            /\ UNCHANGED <<owner, possible_bytes, half_possible_bytes, it, sweep,
                           posn, losses, vpc>>
    /\ UNCHANGED <<vbi, guess, mask0, mask1, target, bytes, oldbytes, aliased, count,
                   runs, written, prevbytes, lastbytes, returned, best, finders>>
    /\ UNCHANGED <<poolVars, callVars>>

\* deconvolve(), one round of `for F in self.finders`: F.find(packet); when it
\* is true the alphabets are made from F.possible_bytes and _deconvolve starts
\* again, on the bytes as they are.
TryFinder ==
    /\ vpc = "refined"
    /\ owner = 0
    /\ fidx <= Len(finders)
    /\ calls' = Append(calls, <<"find", fidx>>)
    /\ stash' = [stash EXCEPT ![fidx] = bytes]
    /\ draft' = IF fidx = 1 THEN [bytes |-> bytes, sweeps |-> Len(losses)] ELSE draft
    /\ packet' = bytes
    /\ IF find(finders[fidx], bytes)
       THEN /\ owner' = fidx
            /\ possible_bytes' =
                   make_possible_bytes(Finder_possible_bytes(finders[fidx]), mask0, mask1)
            /\ half_possible_bytes' = make_half_possible_bytes(possible_bytes')
            /\ it' = it + 1
            /\ sweep' = 0
            /\ posn' = 0
            /\ losses' = <<>>
            /\ vpc' = "sweep"
            /\ UNCHANGED fidx
       ELSE /\ fidx' = fidx + 1
            /\ UNCHANGED <<owner, possible_bytes, half_possible_bytes, it, sweep,
                           posn, losses, vpc>>
    /\ UNCHANGED <<vbi, guess, mask0, mask1, target, bytes, oldbytes, aliased, count,
                   runs, written, prevbytes, lastbytes, returned, best, finders>>
    /\ UNCHANGED <<poolVars, callVars>>

\* deconvolve(), after the second _deconvolve: F.find(packet) on the new bytes,
\* packet = F.fixup(), break, return packet.
FinderFixup ==
    /\ vpc = "refined"
    /\ owner # 0
    /\ calls' = calls \o <<<<"find", owner>>, <<"fixup", owner>>>>
    /\ stash' = [stash EXCEPT ![owner] = bytes]
    /\ packet' = fixup(finders[owner], stash'[owner])
    /\ runs' = runs + 1
    /\ returned' = Append(returned, [packet |-> packet', it |-> it,
                                     sweeps |-> Len(losses), last |-> lastbytes,
                                     prev |-> prevbytes])
    /\ vpc' = "returned"
    /\ UNCHANGED <<vbi, guess, mask0, mask1, possible_bytes, half_possible_bytes,
                   target, bytes, oldbytes, aliased, it, count, sweep, posn,
                   written, prevbytes, lastbytes, losses, best, finders, fidx,
                   owner, draft>>
    /\ UNCHANGED <<poolVars, callVars>>

\* deconvolve() is called once on a decoder (do_file).
DeconvolveLine == vpc = "constructed" /\ Deconvolve

\* deconvolve(), the loop over the finders has ended without a match.
DeconvolveNoMatch == owner = 0 /\ fidx > Len(finders) /\ DeconvolveReturn

NextFinders ==
    \/ DeconvolveLine
    \/ SweepPosition
    \/ SweepEnd
    \/ TryFinder
    \/ FinderFixup
    \/ DeconvolveNoMatch

SpecFinders == InitFinders /\ [][NextFinders]_vars

(* ------------------------------- claims ------------------------------- *)

\* C1: in the multi-process pool the k-th value yielded by apply() is the
\* function's output for the k-th input item, whatever the order in which the
\* workers' results reach the results queue.
C1_InputOrder ==
    processes > 1 =>
        /\ Len(out) <= Len(input)
        /\ \A k \in 1..Len(out) : out[k] = FOut(input[k])

\* C1: values have been yielded and two later results wait in the dict for a
\* result that a slower worker has not delivered yet.
C1_Witness ==
    /\ processes > 1
    /\ Len(out) >= 1
    /\ Cardinality(DOMAIN received) >= 2

\* C2: when apply() has finished, in either pool, the input iterator is used up
\* and the yielded sequence is the pure generator applied to the whole input in
\* one process: same length, same values, same order.
C2_SameAsOneProcess ==
    pc = "applied" => exhausted /\ out = FSeq(input)

\* C2: a multi-process apply() has finished an input longer than the priming window.
C2_Witness ==
    /\ pc = "applied"
    /\ processes > 1
    /\ Len(out) > PrimeCount

\* C3: the function is called once in each worker process and never in the
\* caller (multi-process pool), once in the caller (single-process pool),
\* whatever the number of items and of apply() calls.
C3_OncePerWorker ==
    /\ \A p \in DOMAIN fcalls : fcalls[p] <= 1
    /\ processes = 1 => fcalls[0] = 1
    /\ processes > 1 =>
          /\ fcalls[0] = 0
          /\ \A w \in Workers : started_event[w] => fcalls[w] = 1
          /\ pc \notin {"init", "enter"} => \A w \in Workers : fcalls[w] = 1

\* C3: a multi-process pool has finished its second apply() and has yielded
\* several values in it.
C3_Witness ==
    /\ processes > 1
    /\ pc = "applied"
    /\ napply >= 2
    /\ Len(out) >= 2

\* The number of worker processes that hold an item.
Holding == Cardinality({w \in Workers : wpc[w] = "yield"})

\* C4: the items submitted whose results apply() has not taken from the
\* results queue never number more than the priming window.
C4_WindowBound ==
    processes > 1 =>
        /\ sent_count - taken <= PrimeCount
        /\ Len(work_queue) + Holding + Len(done_queue) <= PrimeCount

\* C4: the window is full again after items beyond the primed ones were submitted.
C4_Witness ==
    /\ processes > 1
    /\ sent_count > PrimeCount
    /\ sent_count - taken = PrimeCount

\* C5 (state part): a finished multi-process apply() has submitted every input
\* item, taken one result for each and yielded each, and left nothing behind.
C5_AllYielded ==
    (pc = "applied" /\ processes > 1) =>
        /\ sent_count = iter_pos
        /\ handled = sent_count
        /\ taken = sent_count
        /\ received_count = sent_count
        /\ Len(out) = Len(input)
        /\ DOMAIN received = {}
        /\ work_queue = <<>>
        /\ done_queue = <<>>
        /\ \A w \in Workers : tmp_queue[w] = <<>>

\* C5: with workers that do not fail, every multi-process apply() that has been
\* started ends, and it has then yielded exactly one result for each input item.
C5_YieldsAllAndTerminates ==
    /\ []C5_AllYielded
    /\ (pc = "prime") ~> (pc = "applied")

\* C5: a multi-process apply() has finished an input shorter than the priming window.
C5_Witness ==
    /\ pc = "applied"
    /\ processes > 1
    /\ Len(out) >= 1
    /\ Len(out) < PrimeCount

\* A worker's stopped event is set although the quit event is not.
UnexpectedStop == ~quit_event /\ \E w \in Workers : stopped_event[w]

\* C6, as claimed: once a worker has stopped unexpectedly while results are
\* outstanding, the next read of the results queue by apply() raises the
\* child-stopped error.
C6_RaisesOnNextRead ==
    [][ ( /\ pc = "loop"
          /\ received_count < sent_count
          /\ UnexpectedStop
          /\ (taken' # taken \/ pc' # pc) )
        => pc' = "child_error" ]_vars

\* C7, as claimed: after a worker was killed while apply() ran, the scope is
\* eventually left: apply() and __exit__ do not wait forever.
C7_KilledWorkerScopeExits ==
    (pc \in {"prime", "loop"} /\ \E w \in Workers : wpc[w] = "killed")
        ~> (pc = "closed")

\* C8, as claimed: when the timeout error leaves scope entry, the quit event is
\* set and every worker that was started is stopped and joined.
C8_TimeoutTearsDown ==
    pc = "enter_failed" =>
        /\ quit_event
        /\ \A w \in Workers : wpc[w] # "new" => stopped_event[w] /\ wpc[w] = "exited"

\* Sequence number n is nowhere between the caller and the workers.
NotInPipeline(n) ==
    /\ \A i \in 1..Len(work_queue) : work_queue[i][1] # n
    /\ \A i \in 1..Len(done_queue) : done_queue[i][1] # n
    /\ \A w \in Workers : \A i \in 1..Len(tmp_queue[w]) : tmp_queue[w][i] # n
    /\ n \notin DOMAIN received

\* C9: a submission that raises for an unserializable item leaves the work
\* queue, the results queue and the workers as they were (the results queue
\* apart from the result the caller had just taken), and the item never reaches
\* a queue or a worker.
C9_RejectedBeforePut ==
    /\ [](\A n \in rejected : NotInPipeline(n))
    /\ [][ rejected' # rejected =>
             /\ pc' = "pickle_error"
             /\ work_queue' = work_queue
             /\ \/ done_queue' = done_queue
                \/ done_queue # <<>> /\ done_queue' = Tail(done_queue)
             /\ UNCHANGED workerVars
             /\ handled' = handled ]_vars

\* C9: the submission of an item pulled in the main loop, after priming, has raised.
C9_Witness ==
    /\ pc = "pickle_error"
    /\ \E n \in rejected : n >= PrimeCount
    /\ work_queue # <<>>

\* C10 (state part): when __exit__ has returned the quit event is set, every
\* worker has set its stopped event and has been joined, and every item that
\* was submitted has been worked on.
C10_ClosedState ==
    (pc = "closed" /\ processes > 1) =>
        /\ quit_event
        /\ \A w \in Workers : stopped_event[w] /\ wpc[w] = "exited"
        /\ work_queue = <<>>
        /\ handled = sent_count

C16_ReorderMap ==
    (processes > 1 /\ pc \in {"loop", "applied"}) =>
        /\ received_count \notin DOMAIN received
        /\ \A k \in DOMAIN received : k > received_count /\ k < sent_count
        /\ Len(out) = received_count
        /\ out = FSeq(SubSeq(input, 1, received_count))

\* Results are parked in the map while an earlier one is still missing, after
\* some have already been yielded.
C16_Witness ==
    /\ pc = "loop"
    /\ received_count >= 1
    /\ Cardinality(DOMAIN received) >= 2

\* The positions whose byte the current refinement has committed.
Committed ==
    IF vpc = "sweep" /\ sweep = 0 THEN {n \in Positions : n < posn}
    ELSE IF vpc \in {"sweep", "check", "refined", "returned"} THEN Positions
    ELSE {}

\* The mask-filtered seed alphabet of position n.
Filtered(n) == masked(Vbi_possible_bytes[n], mask0[n], mask1[n])

\* C11: during deconvolve every byte x committed at a position n satisfies
\* (x & mask0[n]) == x == (x | mask1[n]), or else the mask-filtered alphabet of
\* the position is empty and x comes from the unfiltered seed alphabet.
C11_CommittedAdmitted ==
    \A n \in Committed :
        \/ Admitted(bytes[n], mask0[n], mask1[n])
        \/ Filtered(n) = {} /\ bytes[n] \in Vbi_possible_bytes[n]

\* A sweep has ended on a line where the masks narrow one position's alphabet
\* and empty another's.
C11_Witness ==
    /\ vpc = "check"
    /\ \E n \in Positions : Filtered(n) # {} /\ Filtered(n) # Vbi_possible_bytes[n]
    /\ \E n \in Positions : Filtered(n) = {}

\* C12: in every state of a line's decoding the guess buffer keeps its length,
\* its pre-padding byte is 0x00 and its framing bytes at byte positions 0, 1, 2
\* are 0x55, 0x55, 0x27; every write of a sweep, the look-ahead write of the
\* last position included, goes to a byte position from 3 up to the
\* post-padding byte.
C12_FramingKept ==
    /\ DOMAIN guess = 0..(BufBits - 1)
    /\ getbyte(guess, -1) = 0
    /\ getbyte(guess, 0) = 85
    /\ getbyte(guess, 1) = 85
    /\ getbyte(guess, 2) = 39
    /\ written \subseteq 3..(DataBytes + 3)

\* The look-ahead of the last position has written the post-padding byte.
C12_Witness ==
    /\ vpc = "check"
    /\ (DataBytes + 3) \in written
    /\ 3 \in written

\* The k-th deconvolve() call ended with two sweeps that produced the same bytes.
ConvergedRun(k) == returned[k].last = returned[k].prev

\* C13 as stated: a second deconvolve on a line whose first deconvolve has
\* converged returns the same bytes as the first, and its refinement ends in its
\* first sweep, the iteration counter advancing by exactly one.
C13_SecondRunOneSweep ==
    (Len(returned) >= 2 /\ ConvergedRun(1)) =>
        /\ returned[2].packet = returned[1].packet
        /\ returned[2].it = returned[1].it + 1

\* C13, amended: a second deconvolve on a line whose first deconvolve has
\* converged returns the same bytes as the first, and its refinement takes two
\* sweeps, the iteration counter advancing by exactly two: the byte arrays are
\* zeroed at the start of each deconvolve, so the first sweep never compares
\* equal and it takes a second sweep to reproduce the bytes.
C13_SecondRunSameBytes ==
    (Len(returned) >= 2 /\ ConvergedRun(1)) =>
        /\ returned[2].packet = returned[1].packet
        /\ returned[2].it = returned[1].it + 2
        /\ returned[2].sweeps = 2

\* A second deconvolve has returned on a converged line on which the search
\* had candidates to compare.
C13_Witness ==
    /\ Len(returned) >= 2
    /\ ConvergedRun(1)
    /\ vpc = "returned"
    /\ \E n \in Positions : Cardinality(possible_bytes[n]) > 1

\* C14 as stated: across the sweeps of one refinement the loss of the committed
\* guess at the end of a sweep is never larger than at the end of the sweep
\* before it.
C14_LossNeverGrows ==
    \A i \in 1..(Len(losses) - 1) : losses[i + 1] <= losses[i]

\* C14, amended: the loss at the end of a sweep is not larger than (it equals)
\* the loss at the end of the sweep before it whenever the sweep committed the
\* same bytes as the sweep before it; a sweep that changes a byte may end with
\* a larger loss.
C14_LossKeptWhenBytesKept ==
    (Len(losses) >= 2 /\ lastbytes = prevbytes) =>
        losses[Len(losses)] <= losses[Len(losses) - 1]

\* Two sweeps have ended with the same bytes after comparing candidates.
C14_Witness ==
    /\ Len(losses) >= 2
    /\ lastbytes = prevbytes
    /\ count > 0
    /\ losses[Len(losses)] > 0

\* C17: one refinement performs between 1 and 10 sweeps, and it stops before the
\* 10th sweep exactly when the bytes of the sweep just finished are the bytes of
\* the sweep before it (the zero bytes before the first sweep): a sweep that
\* changed a byte with fewer than 10 sweeps run is followed by another.
C17_StopsExactlyWhenUnchanged ==
    vpc = "refined" =>
        /\ Len(losses) \in 1..MaxSweeps
        /\ Len(losses) < MaxSweeps => lastbytes = prevbytes

\* The error of the guess with b1 at position n and b2 at position n+1.
PairError(n, b1, b2) ==
    Diff(setbyte(setbyte(guess, n + 3, b1), n + 4, b2), target)

\* The pairs that position n has to evaluate.
Pairs(n) ==
    possible_bytes[n] \X
        (IF n = DataBytes - 1 THEN {0} ELSE half_possible_bytes[n + 1])

\* C18: at a position with more than one candidate the sweep evaluates every
\* pair (b1, b2), b1 a candidate of the position and b2 a look-ahead candidate
\* of the next one (0 at the last position), and commits the b1 of the pair of
\* minimal error, the lowest b1 and then the lowest b2 among equal errors; the
\* evaluation counter grows by one per pair. At a position with one candidate
\* that byte is committed and nothing is evaluated.
C18_MinimalPairCommitted ==
    [][vpc = "sweep" =>
        IF Cardinality(possible_bytes[posn]) > 1
        THEN /\ <<best'[2], best'[3]>> \in Pairs(posn)
             /\ best'[1] = PairError(posn, best'[2], best'[3])
             /\ \A p \in Pairs(posn) :
                    LET e == PairError(posn, p[1], p[2])
                    IN  \/ best'[1] < e
                        \/ best'[1] = e /\ best'[2] < p[1]
                        \/ best'[1] = e /\ best'[2] = p[1] /\ best'[3] <= p[2]
             /\ bytes' = [bytes EXCEPT ![posn] = best'[2]]
             /\ getbyte(guess', posn + 3) = best'[2]
             /\ count' = count + Cardinality(Pairs(posn))
        ELSE /\ possible_bytes[posn] = {bytes'[posn]}
             /\ getbyte(guess', posn + 3) = bytes'[posn]
             /\ count' = count]_vars

\* A search over several bytes and several look-ahead bytes has committed one.
C18_Witness ==
    /\ vpc \in {"sweep", "check"}
    /\ best[1] > 0
    /\ count >= 4
    /\ \E n \in Positions :
           /\ bytes[n] = best[2]
           /\ Cardinality(possible_bytes[n]) > 1
           /\ n < DataBytes - 1
           /\ Cardinality(half_possible_bytes[n + 1]) > 1

\* C19: make_possible_bytes leaves no position with an empty alphabet: the
\* alphabet of position n is the part of the seed alphabet admitted by mask0[n]
\* and mask1[n] when that part is not empty and the whole seed alphabet when it
\* is empty (as with mask0[n] = 0x00 and mask1[n] = 0xff), so every position
\* has a candidate and the byte committed there is one of them.
C19_AlphabetNeverEmpty ==
    /\ vpc \notin {"none", "constructed"} =>
           \A n \in Positions :
               LET seedn == Vbi_possible_bytes[n]
                   adm == {x \in seedn : BitAnd(x, mask0[n]) = x /\ BitOr(x, mask1[n]) = x}
               IN  /\ possible_bytes[n] # {}
                   /\ possible_bytes[n] = (IF adm # {} THEN adm ELSE seedn)
                   /\ n \in Committed => bytes[n] \in possible_bytes[n]
    /\ make_possible_bytes(Vbi_possible_bytes, [n \in Positions |-> 0],
                           [n \in Positions |-> 255]) = Vbi_possible_bytes

\* A refinement has ended on a line where the masks admit no byte of the seed
\* alphabet at some position, and a byte of the seed alphabet stands there.
C19_Witness ==
    /\ vpc = "refined"
    /\ \E n \in Positions :
           /\ Filtered(n) = {}
           /\ possible_bytes[n] = Vbi_possible_bytes[n]
           /\ bytes[n] \in Vbi_possible_bytes[n]

\* C20 as stated: after make_guess_mask, bit j of mask0[n] is 0 whenever the
\* lowest sample of the bit is below black + 10 and bit j of mask1[n] is 1
\* whenever the highest sample of the bit is above black * 2.5, also for a bit
\* where both are seen.
C20_MasksFollowExtremes ==
    vpc \notin {"none", "constructed"} =>
        \A n \in Positions : \A j \in 0..7 :
            /\ BelowBlack(vbi, n, j) => Bit(mask0[n], j) = 0
            /\ AboveBlack(vbi, n, j) => Bit(mask1[n], j) = 1

\* What one call of make_guess_mask does to bit j of position n: `low` is a
\* lowest sample below black + 10, `high` a highest sample above black * 2.5
\* or a bit that mask1 had set before the call.
MaskStep(n, j) ==
    LET low == BelowBlack(vbi, n, j)
        high == AboveBlack(vbi, n, j) \/ Bit(mask1[n], j) = 1
    IN  /\ (low /\ ~high) => Bit(mask0'[n], j) = 0
        /\ (high /\ ~low) => Bit(mask1'[n], j) = 1
        /\ (low /\ high) => (Bit(mask0'[n], j) = 1 /\ Bit(mask1'[n], j) = 0)

\* C20, amended: a call of make_guess_mask clears bit j of mask0[n] whenever
\* the lowest sample of the bit is below black + 10 and the bit is not high,
\* and sets bit j of mask1[n] whenever the bit is high and its lowest sample is
\* not below black + 10, a bit being high when its highest sample is above
\* black * 2.5 or when mask1[n] had it set before the call; a bit that is both
\* low and high is left open: 1 in mask0[n] and 0 in mask1[n].
C20_MasksLeaveConflictsOpen ==
    [][(vpc = "constructed" \/ vpc = "returned") =>
           \A n \in Positions : \A j \in 0..7 : MaskStep(n, j)]_vars

\* make_guess_mask has run on a line with a bit whose sample is both below
\* black + 10 and above black * 2.5, a bit that is only low and a bit that is
\* only high.
C20_Witness ==
    /\ vpc = "sweep"
    /\ \E n \in Positions : \E j \in 0..7 :
           /\ BelowBlack(vbi, n, j) /\ AboveBlack(vbi, n, j)
           /\ Bit(mask0[n], j) = 1 /\ Bit(mask1[n], j) = 0
    /\ \E n \in Positions : \E j \in 0..7 :
           /\ BelowBlack(vbi, n, j) /\ ~AboveBlack(vbi, n, j)
           /\ Bit(mask0[n], j) = 0
    /\ \E n \in Positions : \E j \in 0..7 :
           /\ AboveBlack(vbi, n, j) /\ ~BelowBlack(vbi, n, j)
           /\ Bit(mask1[n], j) = 1

\* C22: after any number of make_guess_mask calls every position n has
\* mask1[n] & ~mask0[n] = 0, so the byte mask1[n] itself passes
\* (x & mask0[n]) == x == (x | mask1[n]): where the filtered alphabet of a
\* position is empty, a byte outside the seed alphabet is admitted.
C22_MasksCompatible ==
    \A n \in Positions :
        /\ BitAnd(mask1[n], 255 - mask0[n]) = 0
        /\ Admitted(mask1[n], mask0[n], mask1[n])
        /\ Filtered(n) = {} => mask1[n] \notin Vbi_possible_bytes[n]

\* make_guess_mask has run a second time on a line where some bit is forced
\* to 1 and the masks leave some position without a byte of its seed alphabet.
C22_Witness ==
    /\ runs >= 1
    /\ vpc = "sweep"
    /\ \E n \in Positions : mask1[n] # 0
    /\ \E n \in Positions : Filtered(n) = {} /\ mask0[n] # 255

\* The byte that stands at entry k (0 for the pre-padding) of a buffer made of
\* the pre-padding, the framing bytes, the committed bytes and the
\* post-padding.
PacketByte(k) ==
    IF k = 0 THEN 0
    ELSE IF k \in {1, 2} THEN 85
    ELSE IF k = 3 THEN 39
    ELSE IF k < DataBytes + 4 THEN bytes[k - 4]
    ELSE 0

\* The bit expansion of that buffer.
PacketBits == [i \in 0..(BufBits - 1) |-> 255 * Bit(PacketByte(i \div 8), i % 8)]

\* C23: at the end of every completed sweep the guess buffer is the bit
\* expansion of 0x00, 0x55, 0x55, 0x27, the committed bytes and a 0x00
\* post-padding byte: each look-ahead byte written at the next position is
\* overwritten by that position's commit, and the last position's look-ahead
\* leaves the post-padding at 0.
C23_GuessIsCommittedPacket ==
    vpc \in {"check", "refined", "returned"} =>
        /\ DOMAIN guess = 0..(BufBits - 1)
        /\ \A i \in 0..(BufBits - 1) : guess[i] = PacketBits[i]

\* A sweep has ended in which a position was searched with a non-zero
\* look-ahead byte on offer and the last position was searched too.
C23_Witness ==
    /\ vpc = "check"
    /\ \E n \in Positions :
           /\ n < DataBytes - 1
           /\ Cardinality(possible_bytes[n]) > 1
           /\ \E b2 \in half_possible_bytes[n + 1] : b2 # 0 /\ b2 # bytes[n + 1]
    /\ Cardinality(possible_bytes[DataBytes - 1]) > 1
    /\ LookAt(DataBytes - 1) \in written

\* C24: a multi-process pool serves several apply() calls in one scope. When
\* a call has been consumed to its end the work queue, the results queue and
\* every worker's stash are empty; in every call the items are numbered from 0
\* (each queue entry carries the index of its item in this call's input) and
\* the values yielded are the results of this call's input, in order.
C24_CallsIndependent ==
    /\ pc = "applied" =>
           /\ work_queue = <<>>
           /\ done_queue = <<>>
           /\ \A w \in Workers : tmp_queue[w] = <<>>
           /\ out = FSeq(input)
    /\ pc \in {"prime", "loop", "applied"} =>
           /\ sent_count = Len(input)
           /\ received_count = Len(out)
           /\ out = FSeq(SubSeq(input, 1, Len(out)))
           /\ \A i \in 1..Len(work_queue) :
                  /\ work_queue[i][1] < sent_count
                  /\ work_queue[i][2] = input[work_queue[i][1] + 1]
           /\ \A i \in 1..Len(done_queue) :
                  /\ done_queue[i][1] < sent_count
                  /\ done_queue[i][2] = FOut(input[done_queue[i][1] + 1])
           /\ \A w \in Workers : \A i \in 1..Len(tmp_queue[w]) :
                  tmp_queue[w][i] < sent_count

\* A second apply() has been consumed to its end after a first one that
\* yielded other values.
C24_Witness ==
    /\ napply = 2
    /\ pc = "applied"
    /\ Len(earlier) >= 2
    /\ Len(out) > Len(earlier)
    /\ \A i \in 1..Len(earlier) : out[i] # earlier[i]

\* The position in the list of the first finder that recognises the draft of
\* the first refinement, 0 when none does.
FirstMatch ==
    LET M == {k \in 1..Len(finders) : find(finders[k], draft.bytes)}
    IN  IF M = {} THEN 0 ELSE CHOOSE k \in M : \A j \in M : k <= j

\* find called on the first k finders of the list, in list order.
Finds(k) == [i \in 1..k |-> <<"find", i>>]

\* C21: the finders are asked in list order and the first one whose find is
\* true on the draft owns the line: the alphabets are made from its
\* possible_bytes, refinement runs again, the packet returned is its fixup(),
\* and no later finder is asked or used; when no finder's find is true there
\* is no second refinement and the packet is the refined bytes.
C21_FirstMatchOwns ==
    /\ owner # 0 =>
           /\ owner = FirstMatch
           /\ SubSeq(calls, 1, owner) = Finds(owner)
           /\ \A i \in 1..Len(calls) : calls[i][2] <= owner
           /\ possible_bytes =
                  make_possible_bytes(Finder_possible_bytes(finders[owner]), mask0, mask1)
    /\ vpc = "returned" =>
           IF FirstMatch # 0
           THEN /\ owner = FirstMatch
                /\ calls = Finds(owner) \o <<<<"find", owner>>, <<"fixup", owner>>>>
                /\ Len(losses) >= 1
                /\ packet = fixup(finders[owner], bytes)
           ELSE /\ owner = 0
                /\ calls = Finds(Len(finders))
                /\ Len(losses) = draft.sweeps
                /\ bytes = draft.bytes
                /\ packet = bytes
                /\ possible_bytes = make_possible_bytes(Vbi_possible_bytes, mask0, mask1)

\* A line has been returned by the first of two finders that both recognise
\* its draft, with a packet that differs from the draft.
C21_Witness ==
    /\ vpc = "returned"
    /\ Len(finders) = 2
    /\ owner = 1
    /\ find(finders[2], draft.bytes)
    /\ packet # draft.bytes

=============================================================================
